---- MODULE Spec2Model ----
(***************************************************************************)
(* Cultural_Network (src/networkx/classes/axelrod.py): the Axelrod model   *)
(* of cultural dissemination on an undirected graph.                       *)
(*                                                                         *)
(* Nodes are named 1..n in node-iteration (insertion) order.  An edge is   *)
(* the set of its end points, so {a} is a self-loop at a.  Feature indices *)
(* are 1-based here (Python's are 0-based); colours keep Python's 0-based  *)
(* list positions.  A node attribute that has not been set is a point      *)
(* missing from the domain of `culture` / `color`.                         *)
(***************************************************************************)
EXTENDS Integers, Sequences, FiniteSets

VARIABLES
    nodes,               \* self.nodes: the node set of the graph
    edges,               \* the edge set of the graph
    culturized,          \* self.culturized
    number_of_features,  \* self.number_of_features (Unset until first assigned)
    number_of_traits,    \* self.number_of_traits   (Unset until first assigned)
    culture,             \* node |-> self.nodes[node]["culture"]
    color,               \* node |-> self.nodes[node]["color"]
    result               \* the most recent call and how it ended

vars == <<nodes, edges, culturized, number_of_features, number_of_traits,
          culture, color, result>>

topology == <<nodes, edges>>

\* Everything create_cultural_network and step can write.
attributes == <<culturized, number_of_features, number_of_traits, culture, color>>

----------------------------------------------------------------------------
\* Bounds of the model.
MaxNodes == 3
MaxEdges == 2
MaxF == 3
MaxT == 3
\* Largest size of the table one create_cultural_network call draws from:
\* nodes times features times traits.
MaxTable == 12

\* The value of an instance attribute that __init__ has not created.
Unset == -1

\* Arguments a caller may pass; 0 stands for the non-positive ones.
FeatureArgs == 0..MaxF
TraitArgs == 0..MaxT

----------------------------------------------------------------------------
\* Graph substrate (nx.Graph), as far as the class uses it.

\* list(self.nodes) / iteration over self: insertion order.
NodeList == [i \in 1..Cardinality(nodes) |-> i]

\* list(self.neighbors(n)); a self-loop makes n its own neighbour.
neighbors(n) == {m \in nodes : {n, m} \in edges}

PossibleEdges(n) == {{a, b} : a \in 1..n, b \in 1..n}

----------------------------------------------------------------------------
\* The ways a call can end: what it returned or the exception it raised.
Returned == {"self", "None", "value"}
Raised == {"IndexError", "ValueError", "ZeroDivisionError"}

\* The calls `result` tells apart.  The operations that only read the network
\* are recorded as "query".
Calls == {"__init__", "create_cultural_network", "step", "colorea_nodos", "query"}

Outcome(call, outcome) == [call |-> call, outcome |-> outcome]

Init ==
    /\ \E n \in 0..MaxNodes :
         /\ nodes = 1..n
         /\ \E es \in SUBSET PossibleEdges(n) :
              /\ Cardinality(es) <= MaxEdges
              /\ edges = es
    /\ culturized = FALSE
    /\ number_of_features = Unset
    /\ number_of_traits = Unset
    /\ culture = << >>
    /\ color = << >>
    /\ result = Outcome("__init__", "self")

----------------------------------------------------------------------------
\* create_cultural_network(number_of_features, number_of_traits)

\* randint(1, T) raises ValueError for T < 1; it is called once per node and
\* feature, so only when there is at least one of each.
RandintRaises(F, T) == F >= 1 /\ nodes # {} /\ T < 1

\* Mutant: traits drawn with randrange(T), from 0..T-1.
RandomCultures_randrange(F, T) == [nodes -> [1..F -> 0..(T - 1)]]

\* The matrices the list comprehension can produce: one row per node, each
\* entry drawn from 1..T, range(F) entries per row (none when F <= 0).
RandomCultures(F, T) == [nodes -> [1..F -> 1..T]]

\* Mutant: the cultures are attached with add_node over range(len(self)), which
\* creates node 0.
create_cultural_network_add_node(F, T) ==
    /\ Cardinality(nodes) * F * T <= MaxTable
    /\ number_of_features' = F
    /\ number_of_traits' = T
    /\ nodes' = nodes \cup {0}
    /\ \E cultures \in RandomCultures(F, T) : culture' = cultures
    /\ culturized' = TRUE
    /\ result' = Outcome("create_cultural_network", "self")
    /\ UNCHANGED <<edges, color>>

create_cultural_network(F, T) ==
    /\ Cardinality(nodes) * F * T <= MaxTable
    /\ number_of_features' = F
    /\ number_of_traits' = T
    /\ IF RandintRaises(F, T)
       THEN /\ result' = Outcome("create_cultural_network", "ValueError")
            /\ UNCHANGED <<culture, culturized>>
       ELSE /\ \E cultures \in RandomCultures(F, T) : culture' = cultures
            /\ culturized' = TRUE
            /\ result' = Outcome("create_cultural_network", "self")
    /\ UNCHANGED <<nodes, edges, color>>

----------------------------------------------------------------------------
\* common_features(pos1, pos2): sum of the element-wise equality array.
common_features(pos1, pos2) ==
    Cardinality({i \in 1..Len(culture[pos1]) : culture[pos1][i] = culture[pos2][i]})

call_common_features ==
    /\ result' = Outcome("query", IF culturized THEN "value" ELSE "None")
    /\ UNCHANGED <<topology, attributes>>

list_cultures ==
    /\ result' = Outcome("query", "None")
    /\ UNCHANGED <<topology, attributes>>

----------------------------------------------------------------------------
\* step()

\* Indices where the agent's and the neighbour's cultures differ.
disagreements(agent, neighbour) ==
    {i \in 1..Len(culture[agent]) : culture[agent][i] # culture[neighbour][i]}

\* Mutant: the trial ignores p and can succeed at p = 0.
Binomial_ignores_p(common, length) ==
    {0, 1}

\* Mutant: p computed with floor division, common // length.
Binomial_floor_division(common, length) ==
    IF common = length THEN {1} ELSE {0}

\* np.random.binomial(1, p) for p = common / length: 0 when p = 0, 1 when
\* p = 1, either otherwise.
Binomial(common, length) ==
    IF common = 0 THEN {0} ELSE IF common = length THEN {1} ELSE {0, 1}

\* Mutant: the value copied is the agent's first feature, not feature idx.
CopyFeature_first_feature(agent, neighbour, idx) ==
    [culture EXCEPT ![neighbour][idx] = culture[agent][1]]

\* Mutant: the copy goes from the neighbour to the agent.
CopyFeature_reversed(agent, neighbour, idx) ==
    [culture EXCEPT ![agent][idx] = culture[neighbour][idx]]

\* The culture map after the assignment of lines 157-159.
CopyFeature(agent, neighbour, idx) ==
    [culture EXCEPT ![neighbour][idx] = culture[agent][idx]]

\* The culture map a step leaves, given its random choices.
StepEffect(agent, neighbour, trial, idx) ==
    IF Cardinality(disagreements(agent, neighbour)) > 0 /\ trial = 1
    THEN CopyFeature(agent, neighbour, idx)
    ELSE culture

\* Mutant: the cultures are cleared before the exception leaves the step.
StepRaises_cleared(exception) ==
    /\ result' = Outcome("step", exception)
    /\ culture' = [n \in nodes |-> << >>]

\* A step that ends in an exception: nothing was written before the raise.
StepRaises(exception) ==
    /\ result' = Outcome("step", exception)
    /\ UNCHANGED culture

\* Mutant: `return self` indented into the `if`, so the call returns None.
StepNotCulturized_returns_None ==
    /\ result' = Outcome("step", "None")
    /\ UNCHANGED culture

\* The return at line 160, outside the `if self.culturized`.
StepNotCulturized ==
    /\ result' = Outcome("step", "self")
    /\ UNCHANGED culture

\* The feature index drawn by random.choice(disagreements); no index is drawn
\* (0 here) when the condition of line 149 fails.
Indices(agent, neighbour) ==
    IF disagreements(agent, neighbour) = {} THEN {0} ELSE disagreements(agent, neighbour)

step ==
    /\ UNCHANGED <<topology, culturized, number_of_features, number_of_traits, color>>
    /\ IF ~culturized
       THEN StepNotCulturized
       ELSE IF nodes = {}
       THEN \* random.choice of an empty node list
            StepRaises("IndexError")
       ELSE \E agent \in nodes :
              IF neighbors(agent) = {}
              THEN \* random.choice of an empty neighbour list
                   StepRaises("IndexError")
              ELSE \E neighbour \in neighbors(agent) :
                     IF Len(culture[agent]) = 0
                     THEN \* probability = 0 / 0
                          StepRaises("ZeroDivisionError")
                     ELSE \E trial \in Binomial(common_features(agent, neighbour),
                                                Len(culture[agent])) :
                            \E idx \in Indices(agent, neighbour) :
                              /\ culture' = StepEffect(agent, neighbour, trial, idx)
                              /\ result' = Outcome("step", "self")

----------------------------------------------------------------------------
\* network_cultures(): the distinct cultures, listed in the iteration order of
\* a Python set, which the program does not control: any order can come out.
culture_set == {culture[n] : n \in nodes}

Enumerations(S) ==
    {l \in [1..Cardinality(S) -> S] : \A i, j \in 1..Cardinality(S) : l[i] = l[j] => i = j}

network_cultures == {<<culture_list, Len(culture_list)>> : culture_list \in Enumerations(culture_set)}

\* Mutant: each culture is sorted in place before it is added to the set.
call_network_cultures_sorting ==
    /\ result' = Outcome("query", IF culturized THEN "value" ELSE "None")
    /\ culture' = [n \in DOMAIN culture |->
                     CHOOSE t \in [1..Len(culture[n]) -> {culture[n][i] : i \in 1..Len(culture[n])}] :
                         /\ \A i, j \in 1..Len(t) : i < j => t[i] <= t[j]
                         /\ \A v \in {culture[n][i] : i \in 1..Len(culture[n])} :
                              Cardinality({i \in 1..Len(t) : t[i] = v})
                                  = Cardinality({i \in 1..Len(t) : culture[n][i] = v})]
    /\ UNCHANGED <<topology, culturized, number_of_features, number_of_traits, color>>

call_network_cultures ==
    /\ result' = Outcome("query", IF culturized THEN "value" ELSE "None")
    /\ UNCHANGED <<topology, attributes>>

----------------------------------------------------------------------------
\* cultural_sizes_and_max()

\* culture_sizes for one enumeration of the distinct cultures.
culture_sizes(culture_list) ==
    [k \in 1..Len(culture_list) |->
        Cardinality({node_number \in nodes : culture[node_number] = culture_list[k]})]

SeqMax(s) == CHOOSE m \in {s[k] : k \in 1..Len(s)} : \A k \in 1..Len(s) : s[k] <= m

\* max() of an empty list raises ValueError.
cultural_sizes_and_max ==
    {<<culture_sizes(cl[1]), SeqMax(culture_sizes(cl[1]))>> : cl \in network_cultures}

call_cultural_sizes_and_max ==
    /\ result' = Outcome("query", IF ~culturized THEN "None"
                                  ELSE IF nodes = {} THEN "ValueError"
                                  ELSE "value")
    /\ UNCHANGED <<topology, attributes>>

----------------------------------------------------------------------------
\* colorea_nodos()

\* Mutant: the position is searched by the culture's first entry alone.
index_by_first_entry(culture_list, c) ==
    (CHOOSE k \in 1..Len(culture_list) :
        /\ Len(c) > 0 => culture_list[k][1] = c[1]
        /\ \A j \in 1..(k - 1) : Len(c) > 0 /\ culture_list[j][1] # c[1]) - 1

\* list.index: the 0-based position of the first equal element.
index(culture_list, c) ==
    (CHOOSE k \in 1..Len(culture_list) :
        /\ culture_list[k] = c
        /\ \A j \in 1..(k - 1) : culture_list[j] # c) - 1

\* The colours one call assigns, for one enumeration of the distinct cultures.
Coloring(culture_list) == [node_number \in nodes |-> index(culture_list, culture[node_number])]

\* color_list: the colours in node-iteration order.
color_list(coloring) == [k \in 1..Len(NodeList) |-> coloring[NodeList[k]]]

colorea_nodos ==
    /\ IF culturized
       THEN /\ \E cl \in network_cultures : color' = Coloring(cl[1])
            /\ result' = Outcome("colorea_nodos", "value")
       ELSE /\ result' = Outcome("colorea_nodos", "None")
            /\ UNCHANGED color
    /\ UNCHANGED <<topology, culturized, number_of_features, number_of_traits, culture>>

----------------------------------------------------------------------------
\* fixed_point()

\* Mutant: only a neighbour sharing all the features is counted.
check_node_all_only(node_number) ==
    Cardinality({neighbour_number \in neighbors(node_number) :
        common_features(node_number, neighbour_number) = number_of_features})

\* check_node: the neighbours sharing none or all of the features.
check_node(node_number) ==
    Cardinality({neighbour_number \in neighbors(node_number) :
        common_features(node_number, neighbour_number) \in {0, number_of_features}})

\* Mutant: a node passes when some neighbour was counted, not all of them.
check_network_any ==
    Cardinality({node_number \in nodes : check_node(node_number) > 0})

\* check_network: the nodes all of whose neighbours were counted.
check_network ==
    Cardinality({node_number \in nodes :
        check_node(node_number) = Cardinality(neighbors(node_number))})

fixed_point == check_network = Cardinality(nodes)

call_fixed_point ==
    /\ result' = Outcome("query", IF culturized THEN "value" ELSE "None")
    /\ UNCHANGED <<topology, attributes>>

----------------------------------------------------------------------------
\* Every operation but colorea_nodos.  colorea_nodos writes `color` alone and
\* no operation reads it, so these are the behaviours of a driver that never
\* colours the nodes.
NextUncolored ==
    \/ \E F \in FeatureArgs, T \in TraitArgs : create_cultural_network(F, T)
    \/ step
    \/ call_common_features
    \/ list_cultures
    \/ call_network_cultures
    \/ call_cultural_sizes_and_max
    \/ call_fixed_point

Next ==
    \/ NextUncolored
    \/ colorea_nodos

Spec == Init /\ [][Next]_vars

SpecUncolored == Init /\ [][NextUncolored]_vars

\* The behaviours in which no create_cultural_network call has succeeded yet.
\* culturized is never reset, so these pass through every reachable state
\* with culturized false and take every transition between two such states.
NextNotCulturized ==
    \/ \E F \in FeatureArgs, T \in TraitArgs :
          create_cultural_network(F, T) /\ ~culturized'
    \/ step
    \/ call_common_features
    \/ list_cultures
    \/ call_network_cultures
    \/ call_cultural_sizes_and_max
    \/ colorea_nodos
    \/ call_fixed_point

SpecNotCulturized == Init /\ [][NextNotCulturized]_vars

\* A simulation run: the cultures are created once (the call is repeated
\* while it raises), then step is called again and again.  Every call of step
\* draws afresh, so an exchange that stays possible is made in the end.
NextDriver ==
    \/ ~culturized /\ \E F \in FeatureArgs, T \in TraitArgs : create_cultural_network(F, T)
    \/ culturized /\ step

SpecDriver ==
    Init /\ [][NextDriver]_vars /\ WF_vars(culturized /\ step /\ culture' # culture)

TypeOK ==
    /\ nodes \in {1..n : n \in 0..MaxNodes}
    /\ edges \subseteq PossibleEdges(Cardinality(nodes))
    /\ culturized \in BOOLEAN
    /\ number_of_features \in FeatureArgs \cup {Unset}
    /\ number_of_traits \in TraitArgs \cup {Unset}
    /\ DOMAIN culture \in {{}, nodes}
    /\ DOMAIN color \in {{}, nodes}
    /\ result \in [call : Calls, outcome : Returned \cup Raised]

----------------------------------------------------------------------------
\* Properties.

\* The most recent create_cultural_network call had positive arguments: the two
\* fields always hold the arguments of the most recent call (lines 72-73), and
\* a call with positive arguments sets culturized.
LastCreateValid ==
    culturized /\ number_of_features >= 1 /\ number_of_traits >= 1

\* Every culture has number_of_features entries.
LengthsAgree ==
    \A n \in nodes : Len(culture[n]) = number_of_features

\* A step can change some culture.
StepCanChange == ENABLED (step /\ culture' # culture)

\* C1: after a create_cultural_network(F, T) call with F >= 1 and T >= 1, and
\* after any steps that follow it, every node has a culture of exactly F
\* entries, each in 1..T; a repeated call overwrites every node.
C1_CultureBounds ==
    LastCreateValid =>
        /\ DOMAIN culture = nodes
        /\ \A n \in nodes :
             /\ Len(culture[n]) = number_of_features
             /\ \A i \in 1..Len(culture[n]) : culture[n][i] \in 1..number_of_traits

C1_Witness ==
    /\ LastCreateValid
    /\ number_of_features = 2 /\ number_of_traits = 2
    /\ Cardinality(nodes) = 3
    /\ result = Outcome("step", "self")
    /\ \E n, m \in nodes : culture[n] # culture[m]

\* C2: once fixed_point() is true on a culturized network, no step changes any
\* culture, and fixed_point() is still true after the step.
C2_FixedPointStable ==
    [][(culturized /\ fixed_point /\ step) => (culture' = culture /\ fixed_point')]_vars

\* C2 where the cultures have number_of_features entries, which a
\* create_cultural_network call that raised can break.
C2_StableWhenLengthsAgree ==
    [][(culturized /\ LengthsAgree /\ fixed_point /\ step)
          => (culture' = culture /\ fixed_point')]_vars

\* Two nodes joined by one edge, one feature, two traits, cultures that differ.
C3_Setup ==
    /\ culturized
    /\ nodes = {1, 2}
    /\ edges = {{1, 2}}
    /\ number_of_features = 1
    /\ number_of_traits = 2
    /\ culture[1] # culture[2]

\* C3 as stated: on the two-node network whose single features differ,
\* fixed_point() is false.
C3_NeverFixedPoint == C3_Setup => ~fixed_point

\* C3 amended: on that network fixed_point() is true, and every step leaves
\* the cultures as they are, so the nodes differ and fixed_point() is true
\* in every later state.
C3_AlwaysFixedPoint ==
    [][(C3_Setup /\ step) => (fixed_point /\ culture' = culture /\ C3_Setup' /\ fixed_point')]_vars

C3_Witness == C3_Setup /\ result = Outcome("step", "self")

\* C4: on a culturized network fixed_point() is true exactly when every node
\* shares none or all of the features with each of its neighbours; a network
\* without edges is a fixed point.
C4_FixedPointCharacterised ==
    culturized =>
        /\ fixed_point <=>
               \A n \in nodes : \A m \in neighbors(n) :
                   common_features(n, m) \in {0, number_of_features}
        /\ edges = {} => fixed_point

C4_Witness ==
    /\ LastCreateValid
    /\ fixed_point
    /\ number_of_features >= 2
    /\ \E n \in nodes : \E m, k \in neighbors(n) :
         /\ common_features(n, m) = 0
         /\ k # n /\ common_features(n, k) = number_of_features

\* C5: on a culturized network where fixed_point() is false, some outcome of
\* one step changes a culture.
C5_NotAbsorbing == (culturized /\ ~fixed_point) => StepCanChange

\* C5 where the cultures have number_of_features entries.
C5_NotAbsorbingWhenLengthsAgree ==
    (culturized /\ LengthsAgree /\ ~fixed_point) => StepCanChange

\* C6: whatever a step draws, it leaves the culture map as it was, or it
\* changes one entry: that of the chosen neighbour at an index where agent and
\* neighbour differed, which takes the agent's value; the agent's culture and
\* every other entry stay.
C6_StepFrame ==
    culturized =>
        \A agent \in nodes : \A neighbour \in neighbors(agent) :
            \A trial \in {0, 1} : \A idx \in Indices(agent, neighbour) :
                LET new == StepEffect(agent, neighbour, trial, idx)
                IN  \/ new = culture
                    \/ /\ DOMAIN new = DOMAIN culture
                       /\ idx \in disagreements(agent, neighbour)
                       /\ new[neighbour][idx] = culture[agent][idx]
                       /\ new[agent] = culture[agent]
                       /\ \A n \in nodes :
                            /\ Len(new[n]) = Len(culture[n])
                            /\ \A i \in 1..Len(culture[n]) :
                                 (n # neighbour \/ i # idx) => new[n][i] = culture[n][i]

C6_Witness ==
    /\ LastCreateValid
    /\ Cardinality(nodes) = 3
    /\ result = Outcome("step", "self")
    /\ \E agent \in nodes : \E neighbour \in neighbors(agent) :
         /\ common_features(agent, neighbour) > 0
         /\ disagreements(agent, neighbour) # {}

\* The operations other than create_cultural_network, apart from step.
ReadOnlyCall ==
    \/ call_common_features
    \/ list_cultures
    \/ call_network_cultures
    \/ call_cultural_sizes_and_max
    \/ colorea_nodos
    \/ call_fixed_point

\* C7: while culturized is false, step and every read-only operation raise
\* nothing, leave every attribute and culturized as they are; step returns the
\* network and the others return None.
C7_NotCulturizedNoOp ==
    [][(~culturized /\ (step \/ ReadOnlyCall)) =>
          /\ UNCHANGED <<topology, attributes>>
          /\ step => result'.outcome = "self"
          /\ ReadOnlyCall => result'.outcome = "None"]_vars

C7_Witness ==
    /\ ~culturized
    /\ nodes # {}
    /\ result = Outcome("step", "self")

\* C8: a step that raises because the chosen agent has no neighbours leaves
\* every culture, culturized, number_of_features and number_of_traits as
\* before the call, so the steps that follow start from the state the failed
\* one found.
C8_FailedStepChangesNothing ==
    [][(culturized /\ result' = Outcome("step", "IndexError") /\ step) =>
          UNCHANGED <<topology, attributes>>]_vars

C8_Witness ==
    /\ LastCreateValid
    /\ edges # {}
    /\ \E n \in nodes : neighbors(n) = {}
    /\ \E n, m \in nodes : culture[n] # culture[m]
    /\ result = Outcome("step", "IndexError")

\* C9: create_cultural_network with a non-positive number_of_features or
\* number_of_traits raises, gives no node a culture and leaves culturized,
\* number_of_features and number_of_traits as they were.
C9_FailFast ==
    [][\A F \in FeatureArgs, T \in TraitArgs :
          (create_cultural_network(F, T) /\ (F <= 0 \/ T <= 0)) =>
              /\ result'.outcome \in Raised
              /\ UNCHANGED <<culture, culturized, number_of_features, number_of_traits>>]_vars

\* C10: no operation adds or removes a node or an edge.
C10_TopologyFixed == [][nodes' = nodes /\ edges' = edges]_vars

C10_Witness ==
    /\ LastCreateValid
    /\ edges # {}
    /\ DOMAIN color = nodes
    /\ result = Outcome("step", "self")
    /\ \E n, m \in nodes : culture[n] # culture[m]

RECURSIVE SeqSum(_)
SeqSum(s) == IF s = << >> THEN 0 ELSE s[1] + SeqSum(Tail(s))

\* What the claim says of every pair cultural_sizes_and_max can return: one
\* count per distinct culture, the counts add up to the number of nodes, and
\* the maximum is the largest count.
C11_Accounting ==
    \A r \in cultural_sizes_and_max :
        /\ \A nc \in network_cultures : Len(r[1]) = nc[2]
        /\ Len(r[1]) = Cardinality(culture_set)
        /\ SeqSum(r[1]) = Cardinality(nodes)
        /\ \E k \in 1..Len(r[1]) : r[1][k] = r[2]
        /\ \A k \in 1..Len(r[1]) : r[1][k] <= r[2]

\* C11: on every culturized network, one without nodes included,
\* cultural_sizes_and_max() returns one count per distinct culture, the counts
\* add up to the number of nodes and the maximum is the largest count.
C11_ClusterAccounting ==
    [][(culturized /\ call_cultural_sizes_and_max) =>
          (result'.outcome = "value" /\ C11_Accounting)]_vars

\* C11 on the networks that have a node.
C11_AccountingWhenNodes ==
    [][(culturized /\ nodes # {} /\ call_cultural_sizes_and_max) =>
          (result'.outcome = "value" /\ C11_Accounting)]_vars

\* Two nodes joined by one edge, three features, cultures differing in one.
C12_Setup ==
    /\ culturized
    /\ nodes = {1, 2}
    /\ edges = {{1, 2}}
    /\ number_of_features = 3
    /\ Cardinality(disagreements(1, 2)) = 1

C12_Converged ==
    /\ culturized
    /\ nodes = {1, 2}
    /\ culture[1] = culture[2]
    /\ fixed_point

\* C12: from the two-node network with three features and one disagreement,
\* repeated steps lead to identical cultures, which then stay identical with
\* fixed_point() true.
C12_Converges == C12_Setup ~> []C12_Converged

C12_Witness ==
    /\ C12_Converged
    /\ edges = {{1, 2}}
    /\ number_of_features = 3
    /\ number_of_traits = 2
    /\ result = Outcome("step", "self")

\* C13: on a culturized network, for all nodes a and b, common_features(a, b)
\* equals common_features(b, a), is the number of indices where the two
\* cultures hold equal values, lies in 0..number_of_features, and
\* common_features(a, a) is number_of_features.
C13_CommonFeatures ==
    culturized =>
        \A a, b \in nodes :
            /\ common_features(a, b) = common_features(b, a)
            /\ common_features(a, b) + Cardinality(disagreements(a, b)) = Len(culture[a])
            /\ common_features(a, b) \in 0..number_of_features
            /\ common_features(a, a) = number_of_features

\* C13 where the cultures have number_of_features entries; a network created
\* with number_of_features <= 0 holds empty cultures.
C13_WhenLengthsAgree ==
    (culturized /\ LengthsAgree) =>
        \A a, b \in nodes :
            /\ common_features(a, b) = common_features(b, a)
            /\ common_features(a, b) + Cardinality(disagreements(a, b)) = Len(culture[a])
            /\ common_features(a, b) \in 0..number_of_features
            /\ common_features(a, a) = number_of_features

\* C14: on a culturized network colorea_nodos() gives every node the position
\* of its culture in one enumeration of the distinct cultures and returns
\* these colours in node order: each colour is in 0..k-1 for k distinct
\* cultures, two nodes get one colour exactly when their cultures are equal,
\* and no culture changes.
C14_Colouring ==
    [][(culturized /\ result'.call = "colorea_nodos" /\ colorea_nodos) =>
          /\ result'.outcome = "value"
          /\ culture' = culture
          /\ DOMAIN color' = nodes
          /\ \E cl \in network_cultures :
               /\ \A n \in nodes : cl[1][color'[n] + 1] = culture[n]
               /\ color_list(color') = [k \in 1..Cardinality(nodes) |-> index(cl[1], culture[k])]
          /\ \A n \in nodes : color'[n] \in 0..(Cardinality(culture_set) - 1)
          /\ \A n, m \in nodes : color'[n] = color'[m] <=> culture[n] = culture[m]]_vars

C14_Witness ==
    /\ LastCreateValid
    /\ Cardinality(nodes) = 3
    /\ result = Outcome("colorea_nodos", "value")
    /\ Cardinality(culture_set) = 2
    /\ \E n, m \in nodes : n # m /\ color[n] = color[m] /\ color[n] = 1

\* The operations the claim calls pure.
PureQuery ==
    \/ call_common_features
    \/ call_network_cultures
    \/ call_cultural_sizes_and_max
    \/ call_fixed_point

\* C15: on a culturized network common_features, network_cultures,
\* cultural_sizes_and_max and fixed_point leave every culture, culturized,
\* number_of_features and number_of_traits as they are; step never changes
\* culturized, number_of_features or number_of_traits.
C15_QueriesPure ==
    [][/\ (culturized /\ result'.call = "query" /\ PureQuery) =>
            UNCHANGED <<culture, culturized, number_of_features, number_of_traits>>
       /\ (result'.call = "step" /\ step) =>
            UNCHANGED <<culturized, number_of_features, number_of_traits>>]_vars

C15_Witness ==
    /\ LastCreateValid
    /\ edges # {}
    /\ result = Outcome("query", "value")
    /\ \E n, m \in nodes : \E i \in 1..number_of_features :
         i > 1 /\ culture[n][i] < culture[n][i - 1] /\ culture[n] # culture[m]

\* C16: whichever agent and partner explain a step, the step leaves every
\* culture alone when the two agree on every feature (a self-loop included)
\* or on none; when it changes a culture, common_features(agent, partner) is
\* one greater after the step than before it.
C16_StepMutation ==
    [][(culturized /\ result' = Outcome("step", "self") /\ step) =>
          \A agent \in nodes : \A neighbour \in neighbors(agent) :
              Len(culture[agent]) > 0 =>
                  \A trial \in Binomial(common_features(agent, neighbour), Len(culture[agent])) :
                      \A idx \in Indices(agent, neighbour) :
                          culture' = StepEffect(agent, neighbour, trial, idx) =>
                              /\ (\/ disagreements(agent, neighbour) = {}
                                  \/ common_features(agent, neighbour) = 0) => culture' = culture
                              /\ culture' # culture =>
                                    common_features(agent, neighbour)'
                                        = common_features(agent, neighbour) + 1]_vars

C16_Witness ==
    /\ LastCreateValid
    /\ result = Outcome("step", "self")
    /\ \E n \in nodes : {n} \in edges
    /\ \E n, m \in nodes : n # m /\ {n, m} \in edges /\ common_features(n, m) = 0
    /\ number_of_features >= 2

\* The trait values some node holds at feature index f.
TraitsAt(f) ==
    {culture[n][f] : n \in {m \in nodes \cap DOMAIN culture : f <= Len(culture[m])}}

\* C17: no step adds a value to the set of trait values held at any feature
\* index.
C17_TraitsNeverGrow ==
    [][(result'.call = "step" /\ step) =>
          \A f \in 1..MaxF : TraitsAt(f)' \subseteq TraitsAt(f)]_vars

C17_Witness ==
    /\ LastCreateValid
    /\ result = Outcome("step", "self")
    /\ number_of_traits = 3
    /\ \E n, m \in nodes :
         /\ n # m /\ {n, m} \in edges
         /\ \E f, g \in 1..number_of_features :
              /\ culture[n][f] # culture[m][f]
              /\ culture[n][g] = 3 /\ culture[m][g] = 3
              /\ 3 \notin TraitsAt(f)
====
